---- MODULE Spec2Model ----
(***************************************************************************)
(* A model of git-simple-encrypt's file encryption engine (src/crypt.rs):  *)
(* the envelope codec, the compress-then-encrypt file pipeline and the     *)
(* repository orchestrator that fans the pipeline out over the selected    *)
(* files.                                                                  *)
(*                                                                         *)
(* Bytes are the integers 0..255 and a file's content is a sequence of     *)
(* bytes, so the header layout, the magic probe and the offsets are the    *)
(* ones of the source.  The three library primitives the source calls are  *)
(* represented by small stand-ins with the same interface and shape:       *)
(*   - zstd (encode_all / decode_all): a framed run-length code;           *)
(*   - HKDF-SHA256 (derive_key): a 32-byte key that is a collision-free    *)
(*     function of (master secret, salt) for secrets shorter than 15 bytes;*)
(*   - AES-256-GCM-SIV: a synthetic-IV cipher, body of the payload's       *)
(*     length followed by a 16-byte tag computed from key, nonce and       *)
(*     payload, the keystream derived from key and tag.  Its tag detects   *)
(*     every single-byte change of the ciphertext and every change of the  *)
(*     master secret, which AES-GCM-SIV does up to a forgery probability   *)
(*     of about 2^-128.                                                    *)
(* rand::rng() is an ideal generator: every fill_bytes returns a value     *)
(* never returned before.                                                  *)
(***************************************************************************)
EXTENDS Integers, Sequences, FiniteSets, TLC

VARIABLES
    fs,         \* the working tree: path -> [exists, data]
    rngCtr,     \* number of values rand::rng() has handed out
    used,       \* the (salt, key, nonce) drawn by every encryption performed
    hist,       \* the calls of encrypt_file / decrypt_file made so far, in order
    tampered,   \* whether a byte of a file has been changed from outside
    gitKey,     \* the entry `key` of the repository's git config: <<>> when
                \* there is none, <<k>> when it holds the byte string k
    conf,       \* the repository's configuration (git_simple_encrypt.toml)
    index,      \* the git index: path -> staged content, for tracked paths
    pc,         \* where the orchestrator is in encrypt_repo / decrypt_repo
    mode,       \* "enc" or "dec": which of the two is running
    explicit,   \* the explicit paths given to decrypt_repo (empty: none)
    targets,    \* the resolved selection: a sequence of paths
    tasks,      \* one record per entry of targets: the per-file task
    stages,     \* number of completed stage-all calls in this run
    verdict,    \* what the last run returned
    warned,     \* the tasks whose failure the run logged as a warning
    envFailed,  \* which external call of this run failed, if any
    fs0,        \* the working tree when the run started
    runs,       \* number of orchestrator runs started
    deleted,    \* whether a selected file has been deleted from outside
    extChanged, \* the paths changed from outside since the run started
    prev,       \* the previous run: its mode and the paths it rewrote
    pure        \* the last application of a function of the codec, with its result

vars == <<fs, rngCtr, used, hist, tampered, gitKey, conf, index, pc, mode,
          explicit, targets, tasks, stages, verdict, warned, envFailed, fs0,
          runs, deleted, extChanged, prev, pure>>

batchVars == <<gitKey, conf, index, pc, mode, explicit, targets, tasks, stages,
               verdict, warned, envFailed, fs0, runs, deleted, extChanged, prev,
               pure>>

----------------------------------------------------------------------------
(* Constants and header layout                                             *)

MAGIC == <<71, 73, 84, 83, 69>>           \* b"GITSE"

VERSION == 2

FLAG_COMPRESSED == 1

SALT_LEN == 16

NONCE_LEN == 12

HEADER_LEN == Len(MAGIC) + 1 + 1 + SALT_LEN + NONCE_LEN

KEY_LEN == 32

TAG_LEN == 16

COMPRESS_FLOOR == 50

DEFAULT_ZSTD_LEVEL == 15

ZSTD_MAGIC == <<40, 181, 47, 253>>        \* the zstd frame magic 0xFD2FB528

HKDF_INFO == <<71, 73, 84, 83, 69, 95, 70, 73, 76, 69, 95, 75, 69, 89>>  \* b"GITSE_FILE_KEY"

----------------------------------------------------------------------------
(* Byte-string helpers                                                     *)

Rep(b, n) == [i \in 1..n |-> b]

Ramp(n) == [i \in 1..n |-> i]

Tail2(s, from) == SubSeq(s, from, Len(s))

(* Where an intermediate value is used more than once, it is bound once,   *)
(* as the bound variable of a one-element set, and the result chosen from  *)
(* the one-element set of what is made of it.                              *)

(* The sum of s[lo..hi] modulo 256, by halves.                             *)
RECURSIVE SumSeq(_, _, _)
SumSeq(s, lo, hi) ==
    IF lo > hi THEN 0
    ELSE IF lo = hi THEN s[lo] % 256
    ELSE LET Halves(mid) == (SumSeq(s, lo, mid) + SumSeq(s, mid + 1, hi)) % 256
         IN  CHOOSE it \in {Halves(val) : val \in {(lo + hi) \div 2}} : TRUE

(* rand: the n-th value of the generator, as len bytes (little endian).   *)
fill_bytes(n, len) ==
    [i \in 1..len |-> IF i = 1 THEN n % 256
                      ELSE IF i = 2 THEN (n \div 256) % 256
                      ELSE 0]

----------------------------------------------------------------------------
(* zstd stand-in: frame magic, then (count, byte) pairs.                   *)

(* The run-length code of d[lo..hi], by halves: the codes of the two      *)
(* halves, their adjacent runs joined when they are runs of the same byte *)
(* and the count still fits a byte.                                        *)
RECURSIVE Rle(_, _, _)
Rle(d, lo, hi) ==
    IF lo > hi THEN <<>>
    ELSE IF lo = hi THEN <<1, d[lo]>>
    ELSE LET Halves(mid) ==
                 CHOOSE z \in
                     { IF l[Len(l)] = r[2] /\ l[Len(l) - 1] + r[1] <= 255
                       THEN SubSeq(l, 1, Len(l) - 2)
                                \o <<l[Len(l) - 1] + r[1], r[2]>> \o Tail2(r, 3)
                       ELSE l \o r :
                       l \in {Rle(d, lo, mid)}, r \in {Rle(d, mid + 1, hi)} } : TRUE
         IN  CHOOSE it \in {Halves(val) : val \in {(lo + hi) \div 2}} : TRUE

(* The bytes that the pairs lo..hi of z stand for.                        *)
RECURSIVE Unrle(_, _, _)
Unrle(z, lo, hi) ==
    IF lo > hi THEN <<>>
    ELSE IF lo = hi THEN Rep(z[2 * lo], z[2 * lo - 1])
    ELSE LET Halves(mid) == Unrle(z, lo, mid) \o Unrle(z, mid + 1, hi)
         IN  CHOOSE it \in {Halves(val) : val \in {(lo + hi) \div 2}} : TRUE

zstd_encode_all(data, level) == ZSTD_MAGIC \o Rle(data, 1, Len(data))

zstd_decode_all(data) ==
    LET n == Len(ZSTD_MAGIC)
        Decode(z) ==
            LET wellFormed ==
                    /\ Len(data) >= n
                    /\ SubSeq(data, 1, n) = ZSTD_MAGIC
                    /\ Len(z) % 2 = 0
                    /\ \A i \in 1..Len(z) : (i % 2 = 1) => z[i] >= 1
            IN  IF wellFormed THEN [ok |-> TRUE, data |-> Unrle(z, 1, Len(z) \div 2)]
                ELSE [ok |-> FALSE, data |-> <<>>]
    IN  CHOOSE it \in {Decode(val) : val \in {Tail2(data, n + 1)}} : TRUE

----------------------------------------------------------------------------
(* Envelope codec                                                          *)

(* Mutation of FileHeader_new: salt and nonce are fixed values instead of *)
(* fresh draws.                                                            *)
FileHeader_new_fixed(compressed, n) ==
    [version |-> VERSION,
     flags   |-> IF compressed THEN FLAG_COMPRESSED ELSE 0,
     salt    |-> fill_bytes(0, SALT_LEN),
     nonce   |-> fill_bytes(1, NONCE_LEN)]

FileHeader_new(compressed, n) ==
    [version |-> VERSION,
     flags   |-> IF compressed THEN FLAG_COMPRESSED ELSE 0,
     salt    |-> fill_bytes(n, SALT_LEN),
     nonce   |-> fill_bytes(n + 1, NONCE_LEN)]

(* Mutation of FileHeader_write: the reserved bits of the flags are       *)
(* cleared.                                                                *)
FileHeader_write_bit0(h) ==
    MAGIC \o <<h.version>> \o <<h.flags % 2>> \o h.salt \o h.nonce

FileHeader_write(h) == MAGIC \o <<h.version>> \o <<h.flags>> \o h.salt \o h.nonce

NoHeader == [version |-> 0, flags |-> 0, salt |-> <<>>, nonce |-> <<>>]

(* Mutation of FileHeader_read: the length is checked before the magic.   *)
FileHeader_read_length_first(bytes) ==
    IF Len(bytes) < HEADER_LEN THEN [err |-> "truncated", header |-> NoHeader]
    ELSE IF SubSeq(bytes, 1, Len(MAGIC)) # MAGIC
         THEN [err |-> "bad_magic", header |-> NoHeader]
    ELSE IF bytes[Len(MAGIC) + 1] # VERSION
         THEN [err |-> "unsupported_version", header |-> NoHeader]
    ELSE [err |-> "none",
          header |-> [version |-> bytes[Len(MAGIC) + 1],
                      flags   |-> bytes[Len(MAGIC) + 2],
                      salt    |-> SubSeq(bytes, Len(MAGIC) + 3, Len(MAGIC) + 2 + SALT_LEN),
                      nonce   |-> SubSeq(bytes, Len(MAGIC) + 3 + SALT_LEN, HEADER_LEN)]]

FileHeader_read(bytes) ==
    LET m == Len(MAGIC)
    IN  IF Len(bytes) < m THEN [err |-> "truncated", header |-> NoHeader]
        ELSE IF SubSeq(bytes, 1, m) # MAGIC
             THEN [err |-> "bad_magic", header |-> NoHeader]
        ELSE IF Len(bytes) < m + 1 THEN [err |-> "truncated", header |-> NoHeader]
        ELSE IF bytes[m + 1] # VERSION
             THEN [err |-> "unsupported_version", header |-> NoHeader]
        ELSE IF Len(bytes) < HEADER_LEN THEN [err |-> "truncated", header |-> NoHeader]
        ELSE [err |-> "none",
              header |-> [version |-> bytes[m + 1],
                          flags   |-> bytes[m + 2],
                          salt    |-> SubSeq(bytes, m + 3, m + 2 + SALT_LEN),
                          nonce   |-> SubSeq(bytes, m + 3 + SALT_LEN, HEADER_LEN)]]

(* Mutation of is_compressed: tests bit 1 instead of bit 0.               *)
is_compressed_bit1(h) == ((h.flags \div 2) % 2) = 1

is_compressed(h) == (h.flags % 2) = FLAG_COMPRESSED

(* File::open for reading: the path exists and may be read.               *)
file_open(f) == f.exists /\ ~f.noread

(* Mutation of is_encrypted: as many bytes as the file has are compared   *)
(* with the start of the magic.                                            *)
is_encrypted_prefix(f) ==
    /\ file_open(f)
    /\ \A i \in 1..Len(MAGIC) : i <= Len(f.data) => f.data[i] = MAGIC[i]

(* is_encrypted: open the file and compare its first five bytes.          *)
is_encrypted(f) ==
    /\ file_open(f)
    /\ Len(f.data) >= Len(MAGIC)
    /\ SubSeq(f.data, 1, Len(MAGIC)) = MAGIC

----------------------------------------------------------------------------
(* Key derivation stand-in: salt, then the length and the bytes of the     *)
(* master secret offset by the info label.                                 *)

(* Mutation of derive_key: the master secret is left out of the key.      *)
derive_key_salt_only(master_key, salt) ==
    [i \in 1..KEY_LEN |-> IF i <= SALT_LEN THEN salt[i] ELSE HKDF_INFO[1]]

derive_key(master_key, salt) ==
    [i \in 1..KEY_LEN |->
        IF i <= SALT_LEN THEN salt[i]
        ELSE IF i = SALT_LEN + 1 THEN Len(master_key)
        ELSE IF i - SALT_LEN - 1 <= Len(master_key)
             THEN (master_key[i - SALT_LEN - 1] + HKDF_INFO[1]) % 256
        ELSE HKDF_INFO[1]]

----------------------------------------------------------------------------
(* AEAD stand-in (synthetic IV): tag from key, nonce and payload; body is  *)
(* the payload under a keystream derived from key and tag.                 *)

AeadTag(k, nonce, pt) ==
    LET Tag(digest) ==
            [j \in 1..TAG_LEN |->
                (k[j] + k[j + TAG_LEN] + nonce[((j - 1) % NONCE_LEN) + 1] + digest) % 256]
                \o <<>>
    IN  CHOOSE it \in {Tag(val) : val \in {(SumSeq(pt, 1, Len(pt)) + Len(pt)) % 256}} : TRUE

AeadPad(k, tag, i) ==
    (k[((i - 1) % KEY_LEN) + 1] + tag[((i - 1) % TAG_LEN) + 1] + i) % 256

aead_encrypt(k, nonce, pt) ==
    LET Body(tag) == [i \in 1..Len(pt) |-> (pt[i] + AeadPad(k, tag, i)) % 256] \o tag
    IN  CHOOSE it \in {Body(val) : val \in {AeadTag(k, nonce, pt)}} : TRUE

aead_decrypt(k, nonce, ct) ==
    IF Len(ct) < TAG_LEN THEN [ok |-> FALSE, data |-> <<>>]
    ELSE LET n   == Len(ct) - TAG_LEN
             tag == Tail2(ct, n + 1)
             Open(pt) == IF AeadTag(k, nonce, pt) = tag
                         THEN [ok |-> TRUE, data |-> pt]
                         ELSE [ok |-> FALSE, data |-> <<>>]
         IN  CHOOSE it \in {Open(val)
                 : val \in {[i \in 1..n |-> (ct[i] + 256 - AeadPad(k, tag, i)) % 256] \o <<>>}} : TRUE

----------------------------------------------------------------------------
(* Compression policy                                                      *)

(* Mutation of try_compress: a compressed form of the same size is kept.  *)
try_compress_not_larger(data, level) ==
    IF Len(data) < COMPRESS_FLOOR THEN [payload |-> data, compressed |-> FALSE]
    ELSE LET c == zstd_encode_all(data, level)
         IN  IF Len(c) <= Len(data) THEN [payload |-> c, compressed |-> TRUE]
             ELSE [payload |-> data, compressed |-> FALSE]

try_compress(data, level) ==
    IF Len(data) < COMPRESS_FLOOR THEN [payload |-> data, compressed |-> FALSE]
    ELSE LET c == zstd_encode_all(data, level)
         IN  IF Len(c) < Len(data) THEN [payload |-> c, compressed |-> TRUE]
             ELSE [payload |-> data, compressed |-> FALSE]

try_decompress(data, compressed) ==
    IF compressed THEN zstd_decode_all(data) ELSE [ok |-> TRUE, data |-> data]

----------------------------------------------------------------------------
(* The file pipeline on bytes: what encrypt_file writes for the plaintext  *)
(* it read, and what decrypt_file makes of the content it read.            *)

EncryptBytes(plain, master_key, level, n) ==
    LET Seal(tc) ==
            LET header == FileHeader_new(tc.compressed, n)
                k      == derive_key(master_key, header.salt)
            IN  FileHeader_write(header) \o aead_encrypt(k, header.nonce, tc.payload)
    IN  CHOOSE it \in {Seal(val) : val \in {try_compress(plain, level)}} : TRUE

DecryptBytes(content, master_key) ==
    LET Parsed(hr) ==
            LET Inflated(d) ==
                    IF ~d.ok THEN [res |-> "decompress", data |-> <<>>]
                    ELSE [res |-> "ok", data |-> d.data]
                Opened(pt) ==
                    IF ~pt.ok THEN [res |-> "auth", data |-> <<>>]
                    ELSE CHOOSE it \in {Inflated(val)
                            : val \in {try_decompress(pt.data, is_compressed(hr.header))}} : TRUE
                k  == derive_key(master_key, hr.header.salt)
                ct == Tail2(content, HEADER_LEN + 1)
            IN  IF hr.err # "none" THEN [res |-> "format", data |-> <<>>]
                ELSE CHOOSE it \in {Opened(val)
                        : val \in {aead_decrypt(k, hr.header.nonce, ct)}} : TRUE
    IN  CHOOSE it \in {Parsed(val) : val \in {FileHeader_read(content)}} : TRUE

----------------------------------------------------------------------------
(* The inputs of the model                                                 *)

MaxCalls == 3      \* length of hist: calls of encrypt_file / decrypt_file, and
                   \* changes from outside, in one behaviour

Paths == {"t1.txt", "t2.txt", "t3.txt", "dir/t4.txt"}

K1 == <<107, 49>>                         \* "k1"

K2 == <<107, 50>>                         \* "k2"

Keys == {K1, K2}

ZstdLevels == {1, DEFAULT_ZSTD_LEVEL, 22}

Hello == <<72, 101, 108, 108, 111, 44, 32, 119, 111, 114, 108, 100, 33>>  \* "Hello, world!"

Sixes == Rep(54, 100)                     \* "6".repeat(100)

(* An envelope written by an earlier run under K1.                        *)
OldEnvelope == EncryptBytes(Hello, K1, DEFAULT_ZSTD_LEVEL, 1000)

Plaintexts ==
    { <<>>,                               \* empty
      <<97, 98, 99>>,                     \* shorter than the magic
      <<97, 98, 99, 49, 50, 51>>,         \* 6 bytes
      Hello,                              \* below the compression floor
      Sixes,                              \* compressible
      Ramp(COMPRESS_FLOOR),               \* at the floor, not compressible
      Rep(9, COMPRESS_FLOOR - 1),         \* repetitive but below the floor
      MAGIC,                              \* only the magic
      MAGIC \o <<1>> \o Rep(0, 40),       \* magic, another version
      MAGIC \o <<VERSION>> \o Rep(0, 10), \* magic and version, header cut short
      MAGIC \o <<VERSION, 0>> \o Rep(7, 44),  \* a full header, no valid tag
      OldEnvelope }                       \* the content of an encrypted file

(* A file: whether the path exists, its bytes, its modification time (the *)
(* number of writes it has seen) and whether its permissions forbid        *)
(* writing (ro) or reading (noread).                                       *)
File(data) ==
    [exists |-> TRUE, data |-> data, mtime |-> 0, ro |-> FALSE, noread |-> FALSE]

Absent ==
    [exists |-> FALSE, data |-> <<>>, mtime |-> 0, ro |-> FALSE, noread |-> FALSE]

----------------------------------------------------------------------------
(* encrypt_file and decrypt_file as whole calls                            *)

(* fs::write(path, data): the file exists afterwards and holds data.      *)
(* File::create: the path exists afterwards and is empty; an existing     *)
(* file keeps its inode and so its permissions.                            *)
file_create(f) == [f EXCEPT !.exists = TRUE, !.data = <<>>]

(* write_all: the bytes go into the file, which sets its modification     *)
(* time.                                                                   *)
write_all(f, data) == [f EXCEPT !.data = data, !.mtime = @ + 1]

fs_write(f, data) == write_all(file_create(f), data)

(* Mutation of encrypt_file: the is_encrypted check is missing.           *)
encrypt_file_no_probe(f, master_key, level, n) ==
    IF ~file_open(f) THEN [res |-> "io", file |-> f, drew |-> FALSE]
    ELSE [res  |-> "ok",
          file |-> fs_write(f, EncryptBytes(f.data, master_key, level, n)),
          drew |-> TRUE]

encrypt_file(f, master_key, level, n) ==
    IF is_encrypted(f) THEN [res |-> "skipped", file |-> f, drew |-> FALSE]
    ELSE IF ~file_open(f) THEN [res |-> "io", file |-> f, drew |-> FALSE]
    ELSE IF f.ro THEN [res |-> "io", file |-> f, drew |-> TRUE]
    ELSE [res  |-> "ok",
          file |-> fs_write(f, EncryptBytes(f.data, master_key, level, n)),
          drew |-> TRUE]

(* Mutation of decrypt_file: a failure is swallowed and the file is       *)
(* written as if the plaintext were empty.                                 *)
decrypt_file_swallow(f, master_key) ==
    IF ~is_encrypted(f) THEN [res |-> "none", file |-> f]
    ELSE [res |-> "ok", file |-> fs_write(f, DecryptBytes(f.data, master_key).data)]

(* Mutation of decrypt_file: the is_encrypted check is missing.           *)
decrypt_file_no_probe(f, master_key) ==
    IF ~file_open(f) THEN [res |-> "io", file |-> f]
    ELSE LET d == DecryptBytes(f.data, master_key)
         IN  IF d.res # "ok" THEN [res |-> d.res, file |-> f]
             ELSE [res |-> "ok", file |-> fs_write(f, d.data)]

(* Mutation of decrypt_file: the file is opened for writing before the    *)
(* content is checked, so a failure leaves it empty.                        *)
decrypt_file_create_first(f, master_key) ==
    IF ~is_encrypted(f) THEN [res |-> "none", file |-> f]
    ELSE LET d == DecryptBytes(f.data, master_key)
         IN  IF f.ro THEN [res |-> "io", file |-> f]
             ELSE IF d.res # "ok" THEN [res |-> d.res, file |-> file_create(f)]
             ELSE [res |-> "ok", file |-> fs_write(f, d.data)]

decrypt_file(f, master_key) ==
    IF ~is_encrypted(f) THEN [res |-> "none", file |-> f]
    ELSE LET d == DecryptBytes(f.data, master_key)
         IN  IF d.res # "ok" THEN [res |-> d.res, file |-> f]
             ELSE IF f.ro THEN [res |-> "io", file |-> f]
             ELSE [res |-> "ok", file |-> fs_write(f, d.data)]

(* What the encryption numbered id used: the salt and the nonce of the    *)
(* envelope it built and the key derived from that salt.                   *)
Drawn(id, master_key, envelope) ==
    LET h == FileHeader_read(envelope).header
    IN  [id    |-> id,
         salt  |-> h.salt,
         key   |-> derive_key(master_key, h.salt),
         nonce |-> h.nonce]

FilePaths == {"t1.txt"}

EncryptFileCall(p, k, level) ==
    /\ Len(hist) < MaxCalls
    /\ LET r == encrypt_file(fs[p], k, level, rngCtr)
       IN  /\ fs' = [fs EXCEPT ![p] = r.file]
           /\ rngCtr' = IF r.drew THEN rngCtr + 2 ELSE rngCtr
           /\ used' = IF r.res = "ok"
                    THEN used \cup {Drawn(<<0, Len(hist) + 1>>, k, r.file.data)}
                               ELSE used
           /\ hist' = Append(hist, [op |-> "enc", key |-> k, before |-> fs[p],
                                     after |-> r.file, res |-> r.res])
    /\ UNCHANGED <<batchVars, tampered>>

DecryptFileCall(p, k) ==
    /\ Len(hist) < MaxCalls
    /\ LET r == decrypt_file(fs[p], k)
       IN  /\ fs' = [fs EXCEPT ![p] = r.file]
           /\ hist' = Append(hist, [op |-> "dec", key |-> k, before |-> fs[p],
                                     after |-> r.file, res |-> r.res])
    /\ UNCHANGED <<batchVars, tampered, rngCtr, used>>

(* Somebody changes one byte of the ciphertext region of an encrypted     *)
(* file.                                                                   *)
TamperDeltas == {1, 128}

Tampered(data, i, d) == [data EXCEPT ![i] = (data[i] + d) % 256]

Tamper(p) ==
    /\ ~tampered
    /\ Len(hist) + 1 < MaxCalls          \* a call can still follow
    /\ is_encrypted(fs[p])
    /\ \E i \in (HEADER_LEN + 1)..Len(fs[p].data), d \in TamperDeltas :
          LET g == [fs[p] EXCEPT !.data = Tampered(fs[p].data, i, d)]
          IN  /\ fs' = [fs EXCEPT ![p] = g]
              /\ hist' = Append(hist, [op |-> "tamper", key |-> <<>>,
                                        before |-> fs[p], after |-> g, res |-> "env"])
    /\ tampered' = TRUE
    /\ UNCHANGED <<batchVars, rngCtr, used>>

----------------------------------------------------------------------------
(* The repository: configuration, git index, pathspecs                     *)

(* A pathspec of the crypt list.  "literal" names one file; "under" is     *)
(* `<dir>/**`, which add_to_crypt_list stores for a directory; "nested" is *)
(* `<dir>/**/*`, which decrypt_repo builds for an explicit path that is    *)
(* not a file.                                                             *)
Literal(p) == [kind |-> "literal", path |-> p]

Under(d) == [kind |-> "under", path |-> d]

Nested(d) == [kind |-> "nested", path |-> d]

(* The directories a path lies in, outermost first.                        *)
Dirs(p) == IF p = "dir/t4.txt" THEN <<"dir">> ELSE <<>>

(* Mutation of Matches: every path matches.                                *)
Matches_any(pat, p) == TRUE

(* git's pathspec matching: `d/**` matches everything below d, `d/**/*`    *)
(* only what lies in a subdirectory of d.                                  *)
Matches(pat, p) ==
    CASE pat.kind = "literal" -> p = pat.path
      [] pat.kind = "under"   -> Len(Dirs(p)) >= 1 /\ Dirs(p)[1] = pat.path
      [] pat.kind = "nested"  -> Len(Dirs(p)) >= 2 /\ Dirs(p)[1] = pat.path

(* git ls-files prints the index entries sorted by path.                   *)
PathOrder == <<"dir/t4.txt", "t1.txt", "t2.txt", "t3.txt">>

(* git add -A: the index becomes the working tree.                         *)
add_all(tree) == [p \in {q \in Paths : tree[q].exists} |-> tree[p].data]

ls_files(idx, pat) ==
    SelectSeq(PathOrder, LAMBDA p : p \in DOMAIN idx /\ Matches(pat, p))

RECURSIVE ls_files_absolute_with_given_patterns(_, _)
ls_files_absolute_with_given_patterns(idx, patterns) ==
    IF patterns = <<>> THEN <<>>
    ELSE ls_files(idx, Head(patterns))
         \o ls_files_absolute_with_given_patterns(idx, Tail(patterns))

is_file(tree, p) == p \in Paths /\ tree[p].exists

(* Mutation of explicit_files: the paths given are ignored and every file  *)
(* of the index is selected.                                               *)
explicit_files_every_file(tree, idx, path) ==
    SelectSeq(PathOrder, LAMBDA p : p \in DOMAIN idx)

(* The selection of decrypt_repo for explicit paths.                       *)
RECURSIVE explicit_files(_, _, _)
explicit_files(tree, idx, path) ==
    IF path = <<>> THEN <<>>
    ELSE LET p == Head(path)
         IN  (IF is_file(tree, p) THEN <<p>>
              ELSE ls_files_absolute_with_given_patterns(idx, <<Nested(p)>>))
             \o explicit_files(tree, idx, Tail(path))

DoNotCrypt == <<100, 111, 32, 110, 111, 116, 32, 99, 114, 121, 112, 116>>  \* "do not crypt"

DirTest == <<100, 105, 114, 32, 116, 101, 115, 116>>                       \* "dir test"

(* The working tree of the integration test.                               *)
InitTree ==
    [p \in Paths |->
        CASE p = "t1.txt"     -> File(Hello)
          [] p = "t2.txt"     -> File(Sixes)
          [] p = "t3.txt"     -> File(DoNotCrypt)
          [] p = "dir/t4.txt" -> File(DirTest)]

Config(crypt_list) ==
    [use_zstd |-> TRUE, zstd_level |-> DEFAULT_ZSTD_LEVEL, crypt_list |-> crypt_list]

CryptLists ==
    { <<>>,
      <<Literal("t1.txt"), Literal("t2.txt"), Under("dir")>>,
      <<Under("dir"), Literal("dir/t4.txt")>> }

ExplicitPaths == { <<>>, <<"t1.txt">>, <<"dir">> }

(* The crypt lists above with every file writable, the list of the        *)
(* integration test with a file whose permissions forbid writing, and a    *)
(* repository in which `set enable-zstd false` has switched compression    *)
(* off.                                                                     *)
Repositories ==
    {[crypt_list |-> l, read_only |-> {}, use_zstd |-> TRUE, key |-> <<K1>>] :
        l \in CryptLists}
    \cup {[crypt_list |-> <<Literal("t1.txt"), Literal("t2.txt"), Under("dir")>>,
           read_only  |-> {"t2.txt"}, use_zstd |-> TRUE, key |-> <<K1>>],
          [crypt_list |-> <<Literal("t2.txt")>>,
           read_only  |-> {}, use_zstd |-> FALSE, key |-> <<K1>>]}
    \cup {[crypt_list |-> <<Literal("t1.txt"), Literal("t2.txt"), Under("dir")>>,
           read_only  |-> {}, use_zstd |-> TRUE, key |-> k] : k \in {<<>>, << <<>> >>}}

(* No function has been applied.                                           *)
NoCall == [fn |-> "none", arg |-> <<>>, done |-> FALSE, out |-> <<>>]

BatchIdle ==
    /\ pc = "idle"
    /\ mode = "enc"
    /\ explicit = <<>>
    /\ targets = <<>>
    /\ tasks = <<>>
    /\ stages = 0
    /\ verdict = ""
    /\ warned = {}
    /\ envFailed = ""
    /\ runs = 0
    /\ deleted = FALSE
    /\ extChanged = {}
    /\ prev = [mode |-> "", explicit |-> <<>>, ok |-> {}]
    /\ pure = NoCall

InitFile ==
    /\ \E f \in {File(d) : d \in Plaintexts} \cup {Absent} :
          fs = [p \in Paths |-> IF p \in FilePaths THEN f ELSE Absent]
    /\ fs0 = fs
    /\ rngCtr = 0
    /\ used = {}
    /\ hist = <<>>
    /\ tampered = FALSE
    /\ conf = Config(<<>>)
    /\ index = add_all(fs)
    /\ gitKey = <<K1>>
    /\ BatchIdle

NextFile ==
    \/ \E p \in FilePaths, k \in Keys, level \in ZstdLevels : EncryptFileCall(p, k, level)
    \/ \E p \in FilePaths, k \in Keys : DecryptFileCall(p, k)
    \/ \E p \in FilePaths : Tamper(p)

SpecFile == InitFile /\ [][NextFile]_vars

----------------------------------------------------------------------------
(* encrypt_repo and decrypt_repo.  The orchestrator's steps are the calls  *)
(* it makes one after the other; the per-file tasks run on the rayon pool, *)
(* so their system calls interleave in any order.  Every task draws from   *)
(* its own thread's generator: the value a task draws is named after the   *)
(* task, not after the order of the draws.                                 *)

MaxRuns == 3

Failures == {"io", "format", "auth", "decompress"}

NewTask(p, n) ==
    [path |-> p, pc |-> "ready", res |-> "", step |-> "", out |-> <<>>,
     old |-> Absent, rand |-> n]

(* Mutation of tasks_joined: the results are gathered lazily, nothing      *)
(* waits for the tasks.                                                    *)
tasks_joined_lazy(ts) == TRUE

(* Mutation of tasks_joined: gathering stops at the first failure.         *)
tasks_joined_fail_fast(ts) ==
    \/ \A i \in DOMAIN ts : ts[i].pc = "done"
    \/ \E i \in DOMAIN ts : ts[i].res \in Failures

(* collect::<Vec<_>>() returns when every task has returned.               *)
tasks_joined(ts) == \A i \in DOMAIN ts : ts[i].pc = "done"

(* Mutation of propagate: the result of the call is dropped.               *)
propagate_dropped(ok, next) == next

(* The `?` after a call: an Err leaves the function at once.               *)
propagate(ok, next) == IF ok THEN next ELSE "failed"

(* Mutation of for_each_warn: a failed task makes the run fail.            *)
for_each_bail(results, next) ==
    IF \E i \in DOMAIN results : results[i].res \in Failures THEN "failed" ELSE next

(* The for_each over the gathered results: an Err is logged, nothing       *)
(* else, and the function goes on.                                         *)
for_each_warn(results, next) == next

(* repo.get_key(): the value of the entry, where there is one.             *)
get_key == gitKey[1]

(* Mutation of KeyRefused: only a missing key is refused.                  *)
KeyRefused_unset_only == gitKey = <<>>

(* The start of encrypt_repo and decrypt_repo: get_key's expect fails      *)
(* when there is no key, and the assert fails when the key is empty.       *)
KeyRefused == gitKey = <<>> \/ get_key = <<>>

CanStart == pc \in {"idle", "done", "failed"} /\ runs < MaxRuns

StartRun(m, path) ==
    /\ runs' = runs + 1
    /\ mode' = m
    /\ explicit' = path
    /\ targets' = <<>>
    /\ tasks' = <<>>
    /\ stages' = 0
    /\ warned' = {}
    /\ envFailed' = ""
    /\ fs0' = fs
    /\ extChanged' = {}
    /\ prev' = [mode     |-> IF runs = 0 THEN "" ELSE mode,
                explicit |-> explicit,
                ok       |-> {tasks[i].path : i \in {j \in DOMAIN tasks : tasks[j].res = "ok"}}]
    /\ UNCHANGED <<fs, rngCtr, used, hist, pure, tampered, gitKey, conf,
                   index, deleted>>

EncryptRepoStart ==
    /\ CanStart
    /\ StartRun("enc", <<>>)
    /\ pc' = IF KeyRefused THEN "panicked"
             ELSE IF conf.crypt_list = <<>> THEN "failed"
             ELSE "stage_open"
    /\ verdict' = IF ~KeyRefused /\ conf.crypt_list = <<>> THEN "no_pattern" ELSE ""

DecryptRepoStart(path) ==
    /\ CanStart
    /\ StartRun("dec", path)
    /\ pc' = IF KeyRefused THEN "panicked" ELSE "select"
    /\ verdict' = ""

(* repo.add_all()? before the selection; ok is whether git succeeded.      *)
StageOpen(ok) ==
    /\ pc = "stage_open"
    /\ index' = IF ok THEN add_all(fs) ELSE index
    /\ stages' = IF ok THEN 1 ELSE stages
    /\ envFailed' = IF ok THEN envFailed ELSE "stage_open"
    /\ pc' = propagate(ok, "select")
    /\ verdict' = IF pc' = "failed" THEN "git" ELSE verdict
    /\ UNCHANGED <<fs, rngCtr, used, hist, pure, tampered, gitKey, prev,
                   conf, mode, explicit, targets, tasks, warned, fs0, runs,
                   deleted, extChanged>>

(* Mutation of SelectCallsGit: git is run for an empty list of patterns    *)
(* as well.                                                                 *)
SelectCallsGit_always == TRUE

(* Whether resolving the selection runs git at all.                        *)
SelectCallsGit ==
    IF mode = "enc" \/ explicit = <<>> THEN conf.crypt_list # <<>>
    ELSE \E i \in DOMAIN explicit : ~is_file(fs, explicit[i])

(* The selection, and one task per entry of it.                            *)
Select(ok) ==
    /\ pc = "select"
    /\ ok \/ SelectCallsGit
    /\ LET sel == IF ~ok THEN <<>>
                  ELSE IF mode = "enc" \/ explicit = <<>>
                       THEN ls_files_absolute_with_given_patterns(index, conf.crypt_list)
                       ELSE explicit_files(fs, index, explicit)
       IN  /\ targets' = sel
           /\ tasks' = [i \in 1..Len(sel) |->
                            NewTask(sel[i], IF mode = "enc" THEN rngCtr + 2 * (i - 1) ELSE 0)]
           /\ rngCtr' = IF mode = "enc" THEN rngCtr + 2 * Len(sel) ELSE rngCtr
    /\ envFailed' = IF ok THEN envFailed ELSE "select"
    /\ pc' = propagate(ok, "tasks")
    /\ verdict' = IF pc' = "failed" THEN "git" ELSE verdict
    /\ UNCHANGED <<fs, used, hist, pure, tampered, gitKey, prev, conf, index,
                   mode, explicit, stages, warned, fs0, runs, deleted,
                   extChanged>>

(* A task of the pool can take its next step whenever the run is at its    *)
(* tasks, whatever the other tasks are doing.                               *)
Running(i) == pc = "tasks" /\ i \in DOMAIN tasks

Done(t, res) == [t EXCEPT !.pc = "done", !.res = res]

(* The call of the pipeline an error of each kind comes from.              *)
StepOf(res) ==
    CASE res = "format"     -> "FileHeader::read"
      [] res = "auth"       -> "cipher.decrypt"
      [] res = "decompress" -> "try_decompress"

(* The task returned the Err of the given call.                            *)
Failed(t, res, step) == [t EXCEPT !.pc = "done", !.res = res, !.step = step]

taskFrame == <<hist, pure, tampered, gitKey, prev, conf, index, pc, mode,
               explicit, targets, stages, verdict, warned, envFailed, fs0,
               runs, deleted, extChanged>>

(* encrypt_file: the is_encrypted check.                                   *)
EncProbe(i) ==
    /\ Running(i) /\ mode = "enc" /\ tasks[i].pc = "ready"
    /\ tasks' = [tasks EXCEPT ![i] =
                    IF is_encrypted(fs[@.path]) THEN Done(@, "skipped")
                    ELSE [@ EXCEPT !.pc = "probed"]]
    /\ UNCHANGED <<fs, rngCtr, used, taskFrame>>

(* encrypt_file: fs::read, then the envelope is built in memory.           *)
EncRead(i) ==
    /\ Running(i) /\ mode = "enc" /\ tasks[i].pc = "probed"
    /\ LET t == tasks[i]
           f == fs[t.path]
       IN  /\ tasks' = [tasks EXCEPT ![i] =
                           IF ~file_open(f) THEN Failed(t, "io", "fs::read")
                           ELSE [t EXCEPT !.pc = "read",
                                          !.out = EncryptBytes(f.data, get_key,
                                                               conf.zstd_level, t.rand)]]
           /\ used' = IF ~file_open(f) THEN used
                      ELSE used \cup {Drawn(<<runs, i>>, get_key, tasks'[i].out)}
    /\ UNCHANGED <<fs, rngCtr, taskFrame>>

(* decrypt_repo: the is_file filter in front of decrypt_file.              *)
DecFilter(i) ==
    /\ Running(i) /\ mode = "dec" /\ tasks[i].pc = "ready"
    /\ tasks' = [tasks EXCEPT ![i] =
                    IF is_file(fs, @.path) THEN [@ EXCEPT !.pc = "kept"]
                    ELSE Done(@, "filtered")]
    /\ UNCHANGED <<fs, rngCtr, used, taskFrame>>

(* decrypt_file: the is_encrypted check.                                   *)
DecProbe(i) ==
    /\ Running(i) /\ mode = "dec" /\ tasks[i].pc = "kept"
    /\ tasks' = [tasks EXCEPT ![i] =
                    IF is_encrypted(fs[@.path]) THEN [@ EXCEPT !.pc = "probed"]
                    ELSE Done(@, "none")]
    /\ UNCHANGED <<fs, rngCtr, used, taskFrame>>

(* decrypt_file: fs::read, header, decryption, decompression.              *)
DecRead(i) ==
    /\ Running(i) /\ mode = "dec" /\ tasks[i].pc = "probed"
    /\ LET t == tasks[i]
           f == fs[t.path]
           d == DecryptBytes(f.data, get_key)
       IN  tasks' = [tasks EXCEPT ![i] =
                        IF ~file_open(f) THEN Failed(t, "io", "fs::read")
                        ELSE IF d.res # "ok" THEN Failed(t, d.res, StepOf(d.res))
                        ELSE [t EXCEPT !.pc = "read", !.out = d.data]]
    /\ UNCHANGED <<fs, rngCtr, used, taskFrame>>

(* fs::write, first half: File::create opens the path and truncates it,   *)
(* or fails when the file may not be written.                              *)
WriteOpen(i) ==
    /\ Running(i) /\ tasks[i].pc = "read"
    /\ IF fs[tasks[i].path].ro
       THEN /\ fs' = fs
            /\ tasks' = [tasks EXCEPT ![i] = Failed(@, "io", "fs::write")]
       ELSE /\ fs' = [fs EXCEPT ![tasks[i].path] = file_create(@)]
            /\ tasks' = [tasks EXCEPT ![i] =
                            [@ EXCEPT !.pc = "writing", !.old = fs[tasks[i].path]]]
    /\ UNCHANGED <<rngCtr, used, taskFrame>>

(* fs::write, second half: write_all puts the buffer into the file.        *)
WriteAll(i) ==
    /\ Running(i) /\ tasks[i].pc = "writing"
    /\ fs' = [fs EXCEPT ![tasks[i].path] = write_all(@, tasks[i].out)]
    /\ tasks' = [tasks EXCEPT ![i] = Done(@, "ok")]
    /\ UNCHANGED <<rngCtr, used, taskFrame>>

(* The line warn! prints for a failed task: the prefix of the run and the  *)
(* outermost message of the error, which names the file where the call     *)
(* was given a context with the path.                                      *)
warning(m, t) ==
    [prefix |-> IF m = "enc" THEN "Encryption warning" ELSE "Decryption warning",
     text   |-> CASE t.step = "fs::read"         -> "Reading"
                  [] t.step = "fs::write"        -> IF m = "enc" THEN "Writing" ELSE "os error"
                  [] t.step = "FileHeader::read" -> "Corrupt header in"
                  [] t.step = "cipher.decrypt"   -> "Decryption failed (wrong password?)"
                  [] t.step = "try_decompress"   -> "zstd error",
     file   |-> IF \/ t.step \in {"fs::read", "FileHeader::read"}
                   \/ (t.step = "fs::write" /\ m = "enc")
                THEN t.path ELSE ""]

(* What a run prints about its tasks once they are gathered: the warnings, *)
(* and no line that counts the files.                                      *)
batch_report(m, results, logged) ==
    [warnings |-> {warning(m, results[i]) : i \in logged},
     counts   |-> {}]

(* The results are gathered and every Err is logged as a warning.          *)
Collect ==
    /\ pc = "tasks"
    /\ tasks_joined(tasks)
    /\ warned' = {i \in DOMAIN tasks : tasks[i].res \in Failures}
    /\ pc' = for_each_warn(tasks, IF mode = "enc" THEN "stage_close" ELSE "done")
    /\ verdict' = CASE pc' = "failed" -> "task"
                     [] pc' = "done"   -> "ok"
                     [] OTHER          -> verdict
    /\ UNCHANGED <<fs, rngCtr, used, hist, pure, tampered, gitKey, prev,
                   conf, index, mode, explicit, targets, tasks, stages,
                   envFailed, fs0, runs, deleted, extChanged>>

(* repo.add_all()? after the tasks.                                        *)
StageClose(ok) ==
    /\ pc = "stage_close"
    /\ index' = IF ok THEN add_all(fs) ELSE index
    /\ stages' = IF ok THEN 2 ELSE stages
    /\ envFailed' = IF ok THEN envFailed ELSE "stage_close"
    /\ pc' = propagate(ok, "done")
    /\ verdict' = IF pc' = "failed" THEN "git" ELSE "ok"
    /\ UNCHANGED <<fs, rngCtr, used, hist, pure, tampered, gitKey, prev,
                   conf, mode, explicit, targets, tasks, warned, fs0, runs,
                   deleted, extChanged>>

(* Somebody deletes a selected file before its task has looked at it.      *)
UserDelete(p) ==
    /\ pc = "tasks"
    /\ ~deleted
    /\ fs[p].exists
    /\ \E i \in DOMAIN tasks : tasks[i].path = p
    /\ \A i \in DOMAIN tasks : tasks[i].path = p => tasks[i].pc = "ready"
    /\ fs' = [fs EXCEPT ![p] = Absent]
    /\ deleted' = TRUE
    /\ extChanged' = extChanged \cup {p}
    /\ UNCHANGED <<rngCtr, used, hist, pure, tampered, gitKey, prev, conf,
                   index, pc, mode, explicit, targets, tasks, stages,
                   verdict, warned, envFailed, fs0, runs>>

(* Between two runs somebody changes a byte of an encrypted file: the      *)
(* first byte of the ciphertext or the last byte of the tag.               *)
UserTamper(p) ==
    /\ pc = "done"
    /\ runs < MaxRuns
    /\ ~tampered
    /\ is_encrypted(fs[p])
    /\ \E i \in {HEADER_LEN + 1, Len(fs[p].data)} :
          fs' = [fs EXCEPT ![p] = [@ EXCEPT !.data = Tampered(fs[p].data, i, 1)]]
    /\ tampered' = TRUE
    /\ extChanged' = extChanged \cup {p}
    /\ UNCHANGED <<rngCtr, used, hist, pure, gitKey, prev, conf, index, pc,
                   mode, explicit, targets, tasks, stages, verdict, warned,
                   envFailed, fs0, runs, deleted>>

Init ==
    /\ \E r \in Repositories :
          /\ fs = [p \in Paths |-> [InitTree[p] EXCEPT !.ro = (p \in r.read_only)]]
          /\ conf = [Config(r.crypt_list) EXCEPT !.use_zstd = r.use_zstd]
          /\ gitKey = r.key
    /\ fs0 = fs
    /\ rngCtr = 0
    /\ used = {}
    /\ hist = <<>>
    /\ tampered = FALSE
    /\ index = add_all(fs)
    /\ BatchIdle

Next ==
    \/ EncryptRepoStart
    \/ \E path \in ExplicitPaths : DecryptRepoStart(path)
    \/ \E ok \in BOOLEAN : StageOpen(ok)
    \/ \E ok \in BOOLEAN : Select(ok)
    \/ \E i \in 1..Len(tasks) : EncProbe(i)
    \/ \E i \in 1..Len(tasks) : EncRead(i)
    \/ \E i \in 1..Len(tasks) : DecFilter(i)
    \/ \E i \in 1..Len(tasks) : DecProbe(i)
    \/ \E i \in 1..Len(tasks) : DecRead(i)
    \/ \E i \in 1..Len(tasks) : WriteOpen(i)
    \/ \E i \in 1..Len(tasks) : WriteAll(i)
    \/ Collect
    \/ \E ok \in BOOLEAN : StageClose(ok)
    \/ \E p \in Paths : UserDelete(p)
    \/ \E p \in Paths : UserTamper(p)

Spec == Init /\ [][Next]_vars

(* The steps of the program: what the orchestrator and the tasks of the    *)
(* pool do, as opposed to what the user does.                               *)
TaskStep(i) ==
    \/ EncProbe(i) \/ EncRead(i)
    \/ DecFilter(i) \/ DecProbe(i) \/ DecRead(i)
    \/ WriteOpen(i) \/ WriteAll(i)

ProgramStep ==
    \/ \E ok \in BOOLEAN : StageOpen(ok)
    \/ \E ok \in BOOLEAN : Select(ok)
    \/ \E i \in 1..Len(tasks) : TaskStep(i)
    \/ Collect
    \/ \E ok \in BOOLEAN : StageClose(ok)

(* The runs under a scheduler that lets the program go on: git calls       *)
(* return, and the pool runs every task it was given.                       *)
SpecLive == Init /\ [][Next]_vars /\ WF_vars(ProgramStep)

----------------------------------------------------------------------------
(* The functions of the codec on their own: the header codec, the probe    *)
(* and the compression policy, each applied once to an input.              *)

MaxPad == 3        \* bytes that follow a header, at most

(* Headers of the supported version: every value of the flags byte, salts  *)
(* and nonces from three draws of the generator.                           *)
Headers ==
    {[version |-> VERSION, flags |-> fl,
      salt |-> fill_bytes(n, SALT_LEN), nonce |-> fill_bytes(n + 1, NONCE_LEN)] :
        fl \in 0..255, n \in {0, 257, 65535}}

Ciphertexts == {Rep(200, n) : n \in {0, MaxPad}}

(* Inputs of FileHeader::read: every prefix of a well-formed header        *)
(* followed by MaxPad bytes, of the same with another version byte, and of *)
(* as many bytes that do not start with the magic.                         *)
HeaderBytes ==
    LET h    == FileHeader_write(FileHeader_new(TRUE, 7)) \o Rep(200, MaxPad)
        full == {h, [h EXCEPT ![Len(MAGIC) + 1] = 1],
                    [h EXCEPT ![Len(MAGIC) + 1] = VERSION + 1],
                    [h EXCEPT ![Len(MAGIC) + 1] = 255],
                    [h EXCEPT ![1] = 103],
                    [h EXCEPT ![Len(MAGIC)] = 0],
                    [h EXCEPT ![Len(MAGIC)] = 0, ![Len(MAGIC) + 1] = 1]}
    IN  {SubSeq(b, 1, n) : b \in full, n \in 0..(HEADER_LEN + MaxPad)}

(* Inputs of is_encrypted: a missing file, and readable and unreadable     *)
(* files holding the inputs of the pipeline and prefixes of the magic.      *)
ProbeFiles ==
    LET contents == Plaintexts
                    \cup {SubSeq(MAGIC, 1, n) : n \in 0..Len(MAGIC)}
                    \cup {SubSeq(MAGIC, 1, Len(MAGIC) - 1) \o <<101, 69>>,
                          <<103>> \o Tail2(MAGIC, 2) \o <<VERSION>>,
                          EncryptBytes(Sixes, K2, DEFAULT_ZSTD_LEVEL, 2000)}
    IN  {Absent}
        \cup {File(d) : d \in contents}
        \cup {[File(d) EXCEPT !.noread = TRUE] : d \in contents}
        \cup {[File(d) EXCEPT !.ro = TRUE] : d \in contents}

(* n runs of growing length: bytes 1, 2, 2, 3, 3, 3, ... cut to len bytes, *)
(* the last run filling up.                                                 *)
Runs(n, len) == [i \in 1..len |-> IF i <= n THEN i ELSE n]

(* Inputs of try_compress around the floor and around the size at which    *)
(* the compressed form stops being smaller.                                 *)
CompressInputs ==
    { <<>>, Hello, Sixes,
      Rep(9, COMPRESS_FLOOR - 1), Rep(9, COMPRESS_FLOOR), Rep(9, COMPRESS_FLOOR + 1),
      Ramp(COMPRESS_FLOOR), Ramp(100),
      Runs(22, COMPRESS_FLOOR), Runs(23, COMPRESS_FLOOR), Runs(24, COMPRESS_FLOOR),
      Runs(23, COMPRESS_FLOOR + 1), Runs(23, COMPRESS_FLOOR - 1) }

(* An envelope that authenticates under K1 and whose flags announce a     *)
(* compressed payload, around bytes that are no zstd frame.                 *)
BadStreamEnvelope ==
    LET h == [FileHeader_new(TRUE, 3000) EXCEPT !.flags = FLAG_COMPRESSED]
    IN  FileHeader_write(h) \o aead_encrypt(derive_key(K1, h.salt), h.nonce, <<1, 2, 3>>)

(* Files handed to encrypt_file and decrypt_file on their own.             *)
PipelineFiles ==
    ProbeFiles
    \cup {File(BadStreamEnvelope),
          File(Tampered(OldEnvelope, HEADER_LEN + 1, 1)),
          [File(OldEnvelope) EXCEPT !.ro = TRUE]}

Call(fn, arg) == [fn |-> fn, arg |-> arg, done |-> FALSE, out |-> <<>>]

PureCalls ==
    {Call("FileHeader::write", [header |-> h, ct |-> c]) : h \in Headers, c \in Ciphertexts}
    \cup {Call("FileHeader::read", b) : b \in HeaderBytes}
    \cup {Call("is_encrypted", f) : f \in ProbeFiles}
    \cup {Call("try_compress", [data |-> d, level |-> l, key |-> k]) :
              d \in CompressInputs, l \in ZstdLevels, k \in Keys}
    \cup {Call(fn, [file |-> f, key |-> k]) :
              fn \in {"encrypt_file", "decrypt_file"}, f \in PipelineFiles, k \in Keys}

InitPure ==
    /\ fs = [p \in Paths |-> Absent]
    /\ fs0 = fs
    /\ rngCtr = 0
    /\ used = {}
    /\ hist = <<>>
    /\ tampered = FALSE
    /\ conf = Config(<<>>)
    /\ index = add_all(fs)
    /\ gitKey = <<K1>>
    /\ pc = "idle"
    /\ mode = "enc"
    /\ explicit = <<>>
    /\ targets = <<>>
    /\ tasks = <<>>
    /\ stages = 0
    /\ verdict = ""
    /\ warned = {}
    /\ envFailed = ""
    /\ runs = 0
    /\ deleted = FALSE
    /\ extChanged = {}
    /\ prev = [mode |-> "", explicit |-> <<>>, ok |-> {}]
    /\ pure \in PureCalls

Apply(fn, out) ==
    /\ pure.fn = fn /\ ~pure.done
    /\ pure' = [pure EXCEPT !.done = TRUE, !.out = out]
    /\ UNCHANGED <<fs, rngCtr, used, hist, tampered, gitKey, conf, index, pc, mode,
                   explicit, targets, tasks, stages, verdict, warned, envFailed,
                   fs0, runs, deleted, extChanged, prev>>

(* The envelope as encrypt_file assembles it: the header written into a    *)
(* buffer, the ciphertext appended; and what FileHeader::read makes of it. *)
HeaderWriteCall ==
    Apply("FileHeader::write",
          LET bytes == FileHeader_write(pure.arg.header)
          IN  [bytes    |-> bytes,
               envelope |-> bytes \o pure.arg.ct,
               read     |-> FileHeader_read(bytes \o pure.arg.ct)])

(* FileHeader::read on the bytes, and decrypt_file on a file holding them. *)
HeaderReadCall ==
    Apply("FileHeader::read",
          [read    |-> FileHeader_read(pure.arg),
           decrypt |-> decrypt_file(File(pure.arg), K1)])

ProbeCall ==
    Apply("is_encrypted", [result |-> is_encrypted(pure.arg), file |-> pure.arg])

(* try_compress, the envelope encrypt_file builds from its result, and the *)
(* plaintext decrypt_file recovers from that envelope.                      *)
CompressCall ==
    Apply("try_compress",
          LET a        == pure.arg
              envelope == EncryptBytes(a.data, a.key, a.level, 0)
          IN  [tc       |-> try_compress(a.data, a.level),
               envelope |-> envelope,
               back     |-> DecryptBytes(envelope, a.key)])

EncryptCall ==
    Apply("encrypt_file",
          encrypt_file(pure.arg.file, pure.arg.key, DEFAULT_ZSTD_LEVEL, 0))

DecryptCall ==
    Apply("decrypt_file", decrypt_file(pure.arg.file, pure.arg.key))

NextPure ==
    \/ HeaderWriteCall
    \/ HeaderReadCall
    \/ ProbeCall
    \/ CompressCall
    \/ EncryptCall
    \/ DecryptCall

SpecPure == InitPure /\ [][NextPure]_vars

----------------------------------------------------------------------------
(* The configuration commands: `set zstd-level`, `set enable-zstd` and     *)
(* `add`.  Command-line values are strings, written as their character     *)
(* codes.                                                                   *)

MaxPatterns == 2   \* length of the crypt list, at most

IsDigit(c) == c \in 48..57

(* The value of the decimal digits s[1..n].                                *)
RECURSIVE DigitsValue(_, _)
DigitsValue(s, n) == IF n = 0 THEN 0 ELSE 10 * DigitsValue(s, n - 1) + (s[n] - 48)

(* str::parse::<u8>: an optional "+", then one or more decimal digits      *)
(* whose value fits eight bits.                                             *)
parse_u8(s) ==
    LET digits == IF s # <<>> /\ s[1] = 43 THEN Tail(s) ELSE s
    IN  IF digits = <<>> \/ \E i \in DOMAIN digits : ~IsDigit(digits[i])
        THEN [ok |-> FALSE, value |-> 0]
        ELSE IF DigitsValue(digits, Len(digits)) > 255 THEN [ok |-> FALSE, value |-> 0]
        ELSE [ok |-> TRUE, value |-> DigitsValue(digits, Len(digits))]

(* Mutation of validate_zstd_level: the range starts at 0.                 *)
validate_zstd_level_from_0(value) ==
    LET v == parse_u8(value)
    IN  IF ~v.ok THEN [ok |-> FALSE, value |-> 0, err |-> "value should be a number"]
        ELSE IF v.value \in 0..22 THEN [ok |-> TRUE, value |-> v.value, err |-> ""]
        ELSE [ok |-> FALSE, value |-> 0, err |-> "value should be 1-22"]

validate_zstd_level(value) ==
    LET v == parse_u8(value)
    IN  IF ~v.ok THEN [ok |-> FALSE, value |-> 0, err |-> "value should be a number"]
        ELSE IF v.value \in 1..22 THEN [ok |-> TRUE, value |-> v.value, err |-> ""]
        ELSE [ok |-> FALSE, value |-> 0, err |-> "value should be 1-22"]

validate_bool(value) ==
    IF value \in {"true", "1"} THEN [ok |-> TRUE, value |-> TRUE]
    ELSE IF value \in {"false", "0"} THEN [ok |-> TRUE, value |-> FALSE]
    ELSE [ok |-> FALSE, value |-> FALSE]

(* What is typed after `set zstd-level`.                                   *)
LevelInputs ==
    { <<48>>,                 \* "0"
      <<49>>,                 \* "1"
      <<49, 53>>,             \* "15"
      <<50, 50>>,             \* "22"
      <<50, 51>>,             \* "23"
      <<50, 53, 53>>,         \* "255"
      <<50, 53, 54>>,         \* "256"
      <<57, 57, 57, 57>>,     \* "9999"
      <<48, 48, 55>>,         \* "007"
      <<43, 53>>,             \* "+5"
      <<43>>,                 \* "+"
      <<45, 49>>,             \* "-1"
      <<49, 46, 53>>,         \* "1.5"
      <<50, 50, 32>>,         \* "22 "
      <<97, 98, 99>>,         \* "abc"
      <<>> }                  \* ""

BoolInputs == {"true", "false", "1", "0", "yes", ""}

(* The record of a command that has run: its name, its argument and what  *)
(* it answered.                                                            *)
Ran(fn, arg, out) == [fn |-> fn, arg |-> arg, done |-> TRUE, out |-> out]

(* `set zstd-level <value>`: clap runs the value parser and SetField::set  *)
(* is reached only with a value the parser returned.                        *)
SetZstdLevel(value) ==
    /\ LET v == validate_zstd_level(value)
       IN  /\ conf' = IF v.ok THEN [conf EXCEPT !.zstd_level = v.value] ELSE conf
           /\ pure' = Ran("set zstd-level", value, [accepted |-> v.ok, before |-> conf])
    /\ UNCHANGED <<fs, rngCtr, used, hist, tampered, gitKey, index, pc, mode,
                   explicit, targets, tasks, stages, verdict, warned, envFailed,
                   fs0, runs, deleted, extChanged, prev>>

SetEnableZstd(value) ==
    /\ LET v == validate_bool(value)
       IN  /\ conf' = IF v.ok THEN [conf EXCEPT !.use_zstd = v.value] ELSE conf
           /\ pure' = Ran("set enable-zstd", value, [accepted |-> v.ok, before |-> conf])
    /\ UNCHANGED <<fs, rngCtr, used, hist, tampered, gitKey, index, pc, mode,
                   explicit, targets, tasks, stages, verdict, warned, envFailed,
                   fs0, runs, deleted, extChanged, prev>>

ENCRYPTED_EXTENSION == "enc"

COMPRESSED_EXTENSION == "zst"

CONFIG_FILE == "git_simple_encrypt.toml"

(* The paths given to `add`, relative to the directory of the              *)
(* configuration file unless absolute: what std::path and the file system  *)
(* say about each.                                                          *)
AddPaths ==
    {"t1.txt", "dir", "dir/t4.txt", "nothing.txt", "/repo/t1.txt", "/repo/dir",
     "t5.enc", "old.zst", "lost.enc", "keys.enc", CONFIG_FILE}

is_absolute(p) == p \in {"/repo/t1.txt", "/repo/dir"}

extension(p) ==
    CASE p \in {"t1.txt", "dir/t4.txt", "nothing.txt", "/repo/t1.txt"} -> "txt"
      [] p \in {"t5.enc", "lost.enc", "keys.enc"}                      -> ENCRYPTED_EXTENSION
      [] p = "old.zst"                                                  -> COMPRESSED_EXTENSION
      [] p = CONFIG_FILE                                                -> "toml"
      [] OTHER                                                          -> ""

path_is_dir(p) == p \in {"dir", "/repo/dir", "keys.enc"}

path_exists(p) == path_is_dir(p) \/ p \in {"t1.txt", "dir/t4.txt", "/repo/t1.txt",
                                          "t5.enc", "old.zst", CONFIG_FILE}

is_same_file(p, q) == p = q

(* Mutation of add_to_crypt_list_one: the existence of the path is not     *)
(* checked.                                                                 *)
add_to_crypt_list_one_unchecked(crypt_list, path) ==
    IF is_absolute(path) THEN [ok |-> FALSE, crypt_list |-> crypt_list]
    ELSE IF extension(path) \in {ENCRYPTED_EXTENSION, COMPRESSED_EXTENSION}
         THEN [ok |-> FALSE, crypt_list |-> crypt_list]
    ELSE IF path_exists(path) /\ is_same_file(path, CONFIG_FILE)
         THEN [ok |-> FALSE, crypt_list |-> crypt_list]
    ELSE [ok |-> TRUE,
          crypt_list |-> Append(crypt_list,
                                IF path_is_dir(path) THEN Under(path) ELSE Literal(path))]

(* add_to_crypt_list_one: the assertions, then the push; ok is FALSE when  *)
(* an assertion stopped the program.                                        *)
add_to_crypt_list_one(crypt_list, path) ==
    IF is_absolute(path) THEN [ok |-> FALSE, crypt_list |-> crypt_list]
    ELSE IF extension(path) \in {ENCRYPTED_EXTENSION, COMPRESSED_EXTENSION}
         THEN [ok |-> FALSE, crypt_list |-> crypt_list]
    ELSE IF ~path_exists(path) THEN [ok |-> FALSE, crypt_list |-> crypt_list]
    ELSE IF is_same_file(path, CONFIG_FILE) THEN [ok |-> FALSE, crypt_list |-> crypt_list]
    ELSE [ok |-> TRUE,
          crypt_list |-> Append(crypt_list,
                                IF path_is_dir(path) THEN Under(path) ELSE Literal(path))]

(* Vec::dedup: of equal neighbours the first stays.                         *)
RECURSIVE dedup(_)
dedup(l) ==
    IF Len(l) <= 1 THEN l
    ELSE LET rest == dedup(Tail(l))
         IN  IF Head(l) = Head(rest) THEN rest ELSE <<Head(l)>> \o rest

(* add_to_crypt_list: every path in turn, then save.  The list in memory   *)
(* when the function returned or the program stopped, and the list the      *)
(* configuration file holds afterwards.                                     *)
RECURSIVE add_each(_, _)
add_each(crypt_list, paths) ==
    IF paths = <<>> THEN [ok |-> TRUE, crypt_list |-> crypt_list]
    ELSE LET one == add_to_crypt_list_one(crypt_list, Head(paths))
         IN  IF one.ok THEN add_each(one.crypt_list, Tail(paths)) ELSE one

add_to_crypt_list(crypt_list, paths) ==
    LET r == add_each(crypt_list, paths)
    IN  [ok |-> r.ok, memory |-> r.crypt_list,
         saved |-> IF r.ok THEN dedup(r.crypt_list) ELSE crypt_list]

AddArgs ==
    {<<p>> : p \in AddPaths}
    \cup {<<"t1.txt", "t1.txt">>, <<"t1.txt", "nothing.txt">>, <<"dir", "dir/t4.txt">>}

Add(paths) ==
    /\ Len(conf.crypt_list) + Len(paths) <= MaxPatterns
    /\ LET r == add_to_crypt_list(conf.crypt_list, paths)
       IN  /\ conf' = [conf EXCEPT !.crypt_list = r.saved]
           /\ pure' = Ran("add", paths,
                          [accepted |-> r.ok, before |-> conf, memory |-> r.memory])
    /\ UNCHANGED <<fs, rngCtr, used, hist, tampered, gitKey, index, pc, mode,
                   explicit, targets, tasks, stages, verdict, warned, envFailed,
                   fs0, runs, deleted, extChanged, prev>>

(* The default configuration, no command run yet.                           *)
InitConfig ==
    /\ fs = [p \in Paths |-> Absent]
    /\ fs0 = fs
    /\ rngCtr = 0
    /\ used = {}
    /\ hist = <<>>
    /\ tampered = FALSE
    /\ conf = Config(<<>>)
    /\ index = add_all(fs)
    /\ gitKey = <<K1>>
    /\ BatchIdle

NextConfig ==
    \/ \E value \in LevelInputs : SetZstdLevel(value)
    \/ \E value \in BoolInputs : SetEnableZstd(value)
    \/ \E paths \in AddArgs : Add(paths)

SpecConfig == InitConfig /\ [][NextConfig]_vars

----------------------------------------------------------------------------
(* Properties of the file pipeline, over the recorded calls.  Every change *)
(* of the file is an entry of hist, so hist[i + 1] starts from the content *)
(* hist[i] left.                                                           *)

Encrypted(i) == hist[i].op = "enc" /\ hist[i].res = "ok"

ValidEnvelope(data, k) == DecryptBytes(data, k).res = "ok"

(* C1, as stated: for every byte string p and master secret k,            *)
(* encrypt_file and then decrypt_file with the same k leave the file      *)
(* holding exactly p.                                                      *)
C1_RoundTripEveryByteString ==
    \A i \in 1..(Len(hist) - 1) :
        ( /\ hist[i].op = "enc" /\ hist[i].before.exists
          /\ hist[i + 1].op = "dec" /\ hist[i + 1].key = hist[i].key )
        => hist[i + 1].after.data = hist[i].before.data

(* C1, amended: for every byte string p that is not itself an envelope    *)
(* that authenticates under k, encrypt_file then decrypt_file with the    *)
(* same k leave the file holding exactly p; when p does not begin with    *)
(* the magic, both calls succeed.                                          *)
C1_RoundTrip ==
    \A i \in 1..(Len(hist) - 1) :
        ( /\ hist[i].op = "enc" /\ hist[i].before.exists
          /\ hist[i + 1].op = "dec" /\ hist[i + 1].key = hist[i].key
          /\ ~ValidEnvelope(hist[i].before.data, hist[i].key) )
        => /\ hist[i + 1].after.data = hist[i].before.data
           /\ ~is_encrypted(hist[i].before)
                 => hist[i].res = "ok" /\ hist[i + 1].res = "ok"

C1_Witness ==
    \E i \in 1..(Len(hist) - 1) :
        /\ Encrypted(i) /\ hist[i].before.data = Sixes
        /\ hist[i].after.data[Len(MAGIC) + 2] = FLAG_COMPRESSED
        /\ hist[i + 1].op = "dec" /\ hist[i + 1].key = hist[i].key
        /\ hist[i + 1].res = "ok" /\ fs["t1.txt"].data = Sixes

(* C2: a decrypt_file of an envelope in which one byte of the ciphertext  *)
(* region was changed returns an authentication error and writes nothing. *)
C2_TamperDetected ==
    \A i \in 1..(Len(hist) - 1) :
        ( /\ hist[i].op = "tamper" /\ hist[i + 1].op = "dec"
          /\ ValidEnvelope(hist[i].before.data, hist[i + 1].key) )
        => /\ hist[i + 1].res = "auth"
           /\ hist[i + 1].after = hist[i + 1].before

C2_Witness ==
    \E i \in 1..(Len(hist) - 2) :
        /\ Encrypted(i) /\ hist[i + 1].op = "tamper"
        /\ hist[i + 2].op = "dec" /\ hist[i + 2].key = hist[i].key
        /\ hist[i + 2].res = "auth"
        /\ fs["t1.txt"] = hist[i + 1].after

(* C3: decrypt_file with a master secret other than the one encrypt_file  *)
(* used fails with an authentication error and writes nothing.            *)
C3_WrongKeyRejected ==
    \A i \in 1..(Len(hist) - 1) :
        ( /\ Encrypted(i)
          /\ hist[i + 1].op = "dec" /\ hist[i + 1].key # hist[i].key )
        => /\ hist[i + 1].res = "auth"
           /\ hist[i + 1].after = hist[i + 1].before

C3_Witness ==
    \E i \in 1..(Len(hist) - 1) :
        /\ Encrypted(i) /\ hist[i].key = K1
        /\ hist[i + 1].op = "dec" /\ hist[i + 1].key = K2
        /\ hist[i + 1].res = "auth" /\ fs["t1.txt"] = hist[i].after

C5_DecryptNoop ==
    /\ \A i \in 1..Len(hist) :
          (hist[i].op = "dec" /\ ~is_encrypted(hist[i].before))
          => hist[i].res = "none" /\ hist[i].after = hist[i].before
    /\ \A i \in 1..(Len(hist) - 2) :
          ( /\ Encrypted(i)
            /\ hist[i + 1].op = "dec" /\ hist[i + 1].res = "ok"
            /\ hist[i + 2].op = "dec" )
          => /\ hist[i + 2].res = "none"
             /\ hist[i + 2].after = hist[i + 1].after

C5_Witness ==
    \E i \in 1..(Len(hist) - 2) :
        /\ Encrypted(i) /\ hist[i].before.data = Sixes
        /\ hist[i + 1].op = "dec" /\ hist[i + 1].res = "ok"
        /\ hist[i + 2].op = "dec" /\ hist[i + 2].res = "none"
        /\ fs["t1.txt"].data = Sixes

----------------------------------------------------------------------------
(* Properties of the orchestrator                                          *)

NoDup(sq) == \A i, j \in DOMAIN sq : sq[i] = sq[j] => i = j

(* The tasks have been gathered: the run is past the collect.              *)
Gathered == pc \in {"stage_close", "done"} \/ (pc = "failed" /\ envFailed = "stage_close")

Successes == {"ok", "skipped", "none"}

(* What the pipeline, called on its own on the file as the run found it,   *)
(* would have returned and left in the file.                               *)
Individually(i) ==
    LET t == tasks[i]
    IN  IF mode = "enc"
        THEN LET r == encrypt_file(fs0[t.path], get_key, conf.zstd_level, t.rand)
             IN  [res |-> r.res, file |-> r.file]
        ELSE decrypt_file(fs0[t.path], get_key)

(* Every file nobody touched from outside ended as its own call would     *)
(* have left it, with the result its own call would have returned; a file *)
(* decrypt_repo left out was missing when the run started.                 *)
Isolated ==
    \A i \in DOMAIN tasks :
        tasks[i].path \notin extChanged =>
            /\ fs[tasks[i].path] = Individually(i).file
            /\ IF tasks[i].res = "filtered" THEN ~fs0[tasks[i].path].exists
               ELSE tasks[i].res = Individually(i).res

(* One selected file was deleted before its task looked at it, and every   *)
(* other file is one the pipeline succeeds on.                             *)
OneDeleted ==
    /\ deleted
    /\ Cardinality(extChanged) = 1
    /\ \A p \in extChanged : ~fs[p].exists
    /\ \A i \in DOMAIN tasks :
          tasks[i].path \notin extChanged => Individually(i).res \in Successes

NumberOf(kinds) == Cardinality({i \in DOMAIN tasks : tasks[i].res \in kinds})

C7_AllOrNothing ==
    \A i \in DOMAIN tasks :
        (pc = "tasks" /\ tasks[i].pc = "writing" /\ NoDup(targets)) =>
            fs[tasks[i].path].data \in {tasks[i].old.data, tasks[i].out}

(* C8: no two encryptions used the same salt, and no two used the same     *)
(* (derived key, nonce) pair.                                              *)
C8_FreshEnvelope ==
    \A a, b \in used :
        a.id # b.id => /\ a.salt # b.salt
                       /\ <<a.key, a.nonce>> # <<b.key, b.nonce>>

(* A file encrypted in the first run and again in the third, next to       *)
(* another file encrypted in the same run.                                 *)
C8_Witness ==
    /\ \E a, b \in used : a.id[1] = 1 /\ b.id[1] = 3 /\ a.id[2] = b.id[2]
    /\ \E a, b \in used : a.id[1] = b.id[1] /\ a.id[2] # b.id[2]
    /\ pc = "done" /\ mode = "enc"

(* C9: in an encryption batch the selection and the tasks come after the   *)
(* opening stage call has completed, no task has started before the        *)
(* selection is resolved, and the closing stage call starts only when      *)
(* every task has finished.                                                *)
C9_StagingBracketOrder ==
    mode = "enc" =>
        /\ pc \in {"select", "tasks", "stage_close"} => stages = 1
        /\ tasks # <<>> => (stages >= 1 /\ pc \notin {"stage_open", "select"})
        /\ (pc = "stage_close" \/ stages = 2) =>
              \A i \in DOMAIN tasks : tasks[i].pc = "done"

C9_Witness ==
    /\ mode = "enc" /\ pc = "done" /\ stages = 2
    /\ Len(tasks) = 3
    /\ \A i \in DOMAIN tasks : tasks[i].res = "ok"

(* C10: when the opening stage call or the resolution of the selection     *)
(* fails, the run returns an error, no task exists and no file of the      *)
(* working tree differs from what it was when the run started.             *)
C10_EnvFailureAborts ==
    envFailed \in {"stage_open", "select"} =>
        /\ pc = "failed"
        /\ verdict = "git"
        /\ tasks = <<>>
        /\ fs = fs0

C10_Witness ==
    /\ envFailed = "select"
    /\ pc = "failed"
    /\ mode = "dec"
    /\ \E p \in Paths : is_encrypted(fs[p])

(* C11: a run returns an error only for an environment failure: an empty   *)
(* crypt list, a failed stage call or a failed selection in encrypt_repo,  *)
(* a failed selection in decrypt_repo; a run that got through returns Ok   *)
(* whatever its tasks returned.                                            *)
C11_BatchVerdict ==
    /\ pc = "done" => verdict = "ok"
    /\ pc = "failed" =>
          \/ /\ verdict = "no_pattern"
             /\ mode = "enc" /\ conf.crypt_list = <<>> /\ envFailed = ""
          \/ /\ verdict = "git"
             /\ envFailed \in (IF mode = "enc"
                                THEN {"stage_open", "select", "stage_close"}
                                ELSE {"select"})
    /\ (Gathered /\ envFailed = "") => pc # "failed"

(* A decryption run that returned Ok although a task failed to             *)
(* authenticate.                                                           *)
C11_Witness ==
    /\ pc = "done" /\ verdict = "ok" /\ mode = "dec"
    /\ warned # {}
    /\ NumberOf({"auth"}) >= 1

(* The messages that tell the kind of the error.                           *)
KindOf(text) ==
    CASE text \in {"Reading", "Writing"}                -> "io"
      [] text = "Corrupt header in"                      -> "format"
      [] text = "Decryption failed (wrong password?)"    -> "auth"
      [] OTHER                                           -> ""

(* C12: once the tasks are gathered the run has printed how many files     *)
(* succeeded and how many failed, and every failure it printed names the   *)
(* file of the failed task and the kind of its error.                      *)
C12_BatchReport ==
    Gathered =>
        LET r == batch_report(mode, tasks, warned)
        IN  /\ [ok |-> NumberOf(Successes), failed |-> NumberOf(Failures)] \in r.counts
            /\ \A i \in DOMAIN tasks :
                  tasks[i].res \in Failures =>
                      \E w \in r.warnings : /\ w.file = tasks[i].path
                                             /\ KindOf(w.text) = tasks[i].res

(* C13: when an encryption run has returned Ok, every file of the          *)
(* selection holds an envelope, in the working tree and in what the        *)
(* closing stage call put into the index.                                  *)
C13_NoPlaintextStaged ==
    (mode = "enc" /\ pc = "done" /\ verdict = "ok") =>
        \A i \in DOMAIN targets :
            /\ is_encrypted(fs[targets[i]])
            /\ targets[i] \in DOMAIN index
            /\ is_encrypted(File(index[targets[i]]))

(* p is the path x or lies in the directory x.                             *)
IsOrLiesUnder(p, x) == p = x \/ \E k \in DOMAIN Dirs(p) : Dirs(p)[k] = x

(* p is named by the crypt list.                                           *)
OnCryptList(p) ==
    \E k \in DOMAIN conf.crypt_list : IsOrLiesUnder(p, conf.crypt_list[k].path)

Changed == {tasks[i].path : i \in {j \in DOMAIN tasks : tasks[j].res = "ok"}}

NamedBy(p, path) == \E k \in DOMAIN path : IsOrLiesUnder(p, path[k])

C16_MetadataPreserved ==
    \A i \in DOMAIN hist :
        hist[i].res = "ok" =>
            /\ hist[i].after.ro = hist[i].before.ro
            /\ hist[i].after.mtime = hist[i].before.mtime

Applied(fn) == pure.fn = fn /\ pure.done

(* C17: FileHeader::write gives 35 bytes, the magic, the version, the      *)
(* flags, the salt and the nonce in that order with nothing between them,  *)
(* the ciphertext starts at byte 36 and ends the envelope, and              *)
(* FileHeader::read of the envelope returns the version, flags, salt and   *)
(* nonce that were written, whatever the flags byte.                        *)
C17_HeaderCodec ==
    Applied("FileHeader::write") =>
        LET h == pure.arg.header
            b == pure.out.bytes
            e == pure.out.envelope
        IN  /\ Len(b) = 35
            /\ SubSeq(b, 1, 5) = MAGIC
            /\ b[6] = h.version
            /\ b[7] = h.flags
            /\ SubSeq(b, 8, 23) = h.salt
            /\ SubSeq(b, 24, 35) = h.nonce
            /\ Len(e) = 35 + Len(pure.arg.ct)
            /\ SubSeq(e, 1, 35) = b
            /\ SubSeq(e, 36, Len(e)) = pure.arg.ct
            /\ pure.out.read.err = "none"
            /\ pure.out.read.header = h

(* A header with reserved bits set and ciphertext behind it went through   *)
(* write and read.                                                          *)
C17_Witness ==
    /\ Applied("FileHeader::write")
    /\ pure.arg.header.flags = 254
    /\ pure.arg.header.salt[2] = 255
    /\ Len(pure.arg.ct) = MaxPad
    /\ pure.out.read.header.flags = 254

(* The cases of the header rejection, on the bytes handed to               *)
(* FileHeader::read.                                                        *)
MagicDiffers(b) == Len(b) >= Len(MAGIC) /\ SubSeq(b, 1, Len(MAGIC)) # MAGIC

VersionDiffers(b) ==
    /\ Len(b) >= Len(MAGIC) + 1
    /\ SubSeq(b, 1, Len(MAGIC)) = MAGIC
    /\ b[Len(MAGIC) + 1] # VERSION

(* decrypt_file on a file holding b returned the format error and left    *)
(* the file as it was.                                                      *)
Refused(b) == pure.out.decrypt = [res |-> "format", file |-> File(b)]

(* C18, as stated: bad magic when the first five bytes differ from the     *)
(* magic, unsupported version when the magic matches and the version byte  *)
(* is another, truncated whenever fewer than 35 bytes are available.        *)
C18_TruncatedWheneverShort ==
    Applied("FileHeader::read") =>
        LET b == pure.arg
            r == pure.out.read
        IN  /\ MagicDiffers(b) => r.err = "bad_magic"
            /\ VersionDiffers(b) => r.err = "unsupported_version" /\ Refused(b)
            /\ Len(b) < HEADER_LEN => r.err = "truncated"

(* C18: FileHeader::read answers bad magic when five bytes are there and   *)
(* differ from the magic; unsupported version when the magic matches and   *)
(* the next byte is there and is not the implemented version, and          *)
(* decrypt_file then refuses the file and leaves it alone; truncated when   *)
(* fewer than 35 bytes are there and neither of the two holds; and no       *)
(* error otherwise.  The three errors are three different values.           *)
C18_HeaderRejection ==
    Applied("FileHeader::read") =>
        LET b == pure.arg
            r == pure.out.read
        IN  /\ MagicDiffers(b) => r.err = "bad_magic"
            /\ VersionDiffers(b) => r.err = "unsupported_version" /\ Refused(b)
            /\ (Len(b) < HEADER_LEN /\ ~MagicDiffers(b) /\ ~VersionDiffers(b))
                   => r.err = "truncated"
            /\ (Len(b) >= HEADER_LEN /\ ~MagicDiffers(b) /\ ~VersionDiffers(b))
                   => r.err = "none"
            /\ r.err # "none" => Refused(b) \/ pure.out.decrypt = [res |-> "none", file |-> File(b)]

(* Ten bytes that do not start with the magic were read.                   *)
C18_Witness ==
    /\ Applied("FileHeader::read")
    /\ Len(pure.arg) = 10 /\ MagicDiffers(pure.arg)
    /\ pure.out.read.err = "bad_magic"

(* C19: is_encrypted answers with a boolean for every file; the answer is *)
(* TRUE exactly when the file can be opened, holds at least five bytes and *)
(* its first five bytes are the magic, so FALSE for a missing file, an     *)
(* unreadable one, one shorter than five bytes and one that starts with    *)
(* other bytes; and the file is as it was.                                  *)
C19_ProbeTotal ==
    Applied("is_encrypted") =>
        LET f == pure.arg
            r == pure.out.result
        IN  /\ r \in BOOLEAN
            /\ r <=> ( /\ f.exists /\ ~f.noread
                       /\ Len(f.data) >= 5
                       /\ \A i \in 1..5 : f.data[i] = MAGIC[i] )
            /\ ~f.exists => ~r
            /\ f.noread => ~r
            /\ Len(f.data) < 5 => ~r
            /\ (\E i \in 1..5 : i <= Len(f.data) /\ f.data[i] # MAGIC[i]) => ~r
            /\ pure.out.file = f

(* The probe has answered FALSE for a readable file that holds the first   *)
(* four bytes of the magic.                                                 *)
C19_Witness ==
    /\ Applied("is_encrypted")
    /\ pure.arg.exists /\ ~pure.arg.noread
    /\ pure.arg.data = SubSeq(MAGIC, 1, 4)
    /\ pure.out.result = FALSE

(* The envelope of data without compression: a header with the flag       *)
(* clear and the data itself under the cipher.                              *)
StoredUncompressed(data, master_key) ==
    LET h == FileHeader_new(FALSE, 0)
    IN  FileHeader_write(h) \o aead_encrypt(derive_key(master_key, h.salt), h.nonce, data)

(* C20: try_compress returns the input and FALSE when the input is shorter *)
(* than the floor or its compressed form is not shorter than the input,    *)
(* and the compressed form and TRUE otherwise; bit 0 of the flags of the    *)
(* envelope built from it is that boolean; decryption of the envelope       *)
(* decompresses the authenticated payload when bit 0 is set and returns it  *)
(* as it is otherwise, and gives back the input.  "Hello, world!" is stored *)
(* with the flag clear, a hundred "6" with the flag set and in fewer bytes  *)
(* than without compression.                                                *)
C20_CompressionPolicy ==
    Applied("try_compress") =>
        LET a    == pure.arg
            tc   == pure.out.tc
            z    == zstd_encode_all(a.data, a.level)
            e    == pure.out.envelope
            bit0 == (FileHeader_read(e).header.flags % 2) = 1
        IN  /\ (Len(a.data) < 50 \/ Len(z) >= Len(a.data))
                   => tc = [payload |-> a.data, compressed |-> FALSE]
            /\ (Len(a.data) >= 50 /\ Len(z) < Len(a.data))
                   => tc = [payload |-> z, compressed |-> TRUE]
            /\ bit0 <=> tc.compressed
            /\ Len(e) = 35 + Len(tc.payload) + TAG_LEN
            /\ pure.out.back.res = "ok"
            /\ pure.out.back.data =
                   (IF bit0 THEN zstd_decode_all(tc.payload).data ELSE tc.payload)
            /\ pure.out.back.data = a.data
            /\ a.data = Hello => ~bit0
            /\ a.data = Sixes =>
                   /\ bit0
                   /\ Len(e) < Len(StoredUncompressed(a.data, a.key))

(* The hundred "6" went through try_compress, the envelope and back.       *)
C20_Witness ==
    /\ Applied("try_compress")
    /\ pure.arg.data = Sixes /\ Len(pure.arg.data) = 100
    /\ pure.out.tc.compressed
    /\ Len(pure.out.tc.payload) < 100
    /\ pure.out.back.data = Sixes

(* C21: the selection the tasks are made from names no path twice.        *)
C21_DeduplicatedSelection == NoDup(targets)

(* The decimal numeral of n, 0 <= n <= 99.                                 *)
Numeral(n) == IF n < 10 THEN <<48 + n>> ELSE <<48 + (n \div 10), 48 + (n % 10)>>

(* s without its leading zeros.                                            *)
RECURSIVE Unpadded(_)
Unpadded(s) == IF Len(s) >= 2 /\ s[1] = 48 THEN Unpadded(Tail(s)) ELSE s

(* The string s is a way of writing the number n: an optional "+", then    *)
(* the numeral of n, possibly behind zeros.                                 *)
Denotes(s, n) ==
    LET t == IF s # <<>> /\ s[1] = 43 THEN Tail(s) ELSE s
    IN  t # <<>> /\ Unpadded(t) = Numeral(n)

(* C22: whatever commands have run since the default configuration, the    *)
(* configured level is an integer from 1 to 22; a `set zstd-level` is      *)
(* accepted exactly when its value writes a number from 1 to 22, which is  *)
(* then the configured level, and a rejected one leaves the configuration  *)
(* as it was.                                                               *)
C22_LevelInRange ==
    /\ conf.zstd_level \in 1..22
    /\ Applied("set zstd-level") =>
          /\ pure.out.accepted <=> \E n \in 1..22 : Denotes(pure.arg, n)
          /\ pure.out.accepted => Denotes(pure.arg, conf.zstd_level)
          /\ ~pure.out.accepted => conf = pure.out.before

(* Level 22 was set, and then "23" was refused.                            *)
C22_Witness ==
    /\ Applied("set zstd-level")
    /\ pure.arg = <<50, 51>>
    /\ ~pure.out.accepted
    /\ pure.out.before.zstd_level = 22
    /\ conf.zstd_level = 22

(* A path the crypt list admits: relative, existing, not the              *)
(* configuration file, without the encrypted or the compressed extension.  *)
Admissible(p) ==
    /\ ~is_absolute(p)
    /\ path_exists(p)
    /\ p # CONFIG_FILE
    /\ extension(p) \notin {"enc", "zst"}

(* The pattern expected for an admitted path: "<p>/**" for a directory,    *)
(* p itself for a file.                                                     *)
PatternFor(p) == [kind |-> IF path_is_dir(p) THEN "under" ELSE "literal", path |-> p]

(* C23: an `add` appends, in order, the patterns of the paths it is given  *)
(* up to the first one that is not admissible, where it stops: only        *)
(* admissible paths are appended, a directory as "<p>/**" and a file as    *)
(* it is, and a path that is not admissible is refused with nothing         *)
(* appended for it and nothing saved.                                       *)
C23_CryptListAdmission ==
    Applied("add") =>
        LET paths  == pure.arg
            before == pure.out.before.crypt_list
            memory == pure.out.memory
            k      == Len(memory) - Len(before)
        IN  /\ k \in 0..Len(paths)
            /\ SubSeq(memory, 1, Len(before)) = before
            /\ \A i \in 1..k : /\ Admissible(paths[i])
                               /\ memory[Len(before) + i] = PatternFor(paths[i])
            /\ k < Len(paths) => ~Admissible(paths[k + 1])
            /\ pure.out.accepted <=> k = Len(paths)
            /\ ~pure.out.accepted => conf = pure.out.before
            /\ \A i \in DOMAIN conf.crypt_list :
                  \E q \in AddPaths : Admissible(q) /\ conf.crypt_list[i] = PatternFor(q)

(* A directory had been added as "dir/**", and then a missing path was     *)
(* refused.                                                                 *)
C23_Witness ==
    /\ Applied("add")
    /\ pure.arg = <<"nothing.txt">>
    /\ ~pure.out.accepted
    /\ conf.crypt_list = <<Under("dir")>>

(* C24: when an encryption run is over, with no change from outside and   *)
(* every file writable, each selected file that was plaintext holds one    *)
(* envelope that decrypts under the run's secret to the bytes the file     *)
(* held when the run began.                                                 *)
C24_NoDoubleEncryption ==
    ( /\ mode = "enc" /\ pc = "done"
      /\ extChanged = {}
      /\ \A p \in Paths : ~fs[p].ro )
    => \A i \in DOMAIN tasks :
          LET p == tasks[i].path
          IN  ~is_encrypted(fs0[p]) =>
                  DecryptBytes(fs[p].data, get_key) = [res |-> "ok", data |-> fs0[p].data]

(* C25: a file that only encryption and decryption under the one secret   *)
(* have touched holds, at every point, its original bytes or an envelope   *)
(* that decrypts to them.                                                   *)
C25_PlaintextOrEnvelope ==
    \A p \in Paths :
        (~tampered /\ fs[p].exists) =>
            \/ fs[p].data = InitTree[p].data
            \/ DecryptBytes(fs[p].data, get_key) = [res |-> "ok", data |-> InitTree[p].data]

(* C26: when encrypt_file or decrypt_file returns an error, the file is   *)
(* as it was before the call: the same bytes, and the same in every other  *)
(* respect.                                                                 *)
C26_FailureLeavesFile ==
    (Applied("encrypt_file") \/ Applied("decrypt_file")) =>
        (pure.out.res \in Failures =>
            /\ pure.out.file.data = pure.arg.file.data
            /\ pure.out.file = pure.arg.file)

(* decrypt_file has failed on a compressed stream that no decoder accepts, *)
(* after the header and the tag were found good.                            *)
C26_Witness ==
    /\ Applied("decrypt_file")
    /\ pure.arg.file.data = BadStreamEnvelope /\ pure.arg.key = K1
    /\ pure.out.res = "decompress"
    /\ pure.out.file.data = BadStreamEnvelope

(* C27: no envelope an encryption run wrote has bit 0 of its flags set    *)
(* when use_zstd is FALSE, and when it is TRUE the bit is set exactly for  *)
(* the files whose compressed form is shorter than the file.                *)
C27_CompressionSwitch ==
    mode = "enc" =>
        \A i \in DOMAIN tasks :
            tasks[i].res = "ok" =>
                LET bit0 == (FileHeader_read(fs[tasks[i].path].data).header.flags % 2) = 1
                    p    == tasks[i].path
                IN  (~deleted /\ NoDup(targets) /\ is_encrypted(fs[p])) =>
                        /\ ~conf.use_zstd => ~bit0
                        /\ conf.use_zstd =>
                              (bit0 <=> try_compress(fs0[p].data, conf.zstd_level).compressed)

Outcomes == {"ok", "skipped", "none"} \cup Failures

(* One task per entry of the selection, in its order.                      *)
OneTaskEach ==
    /\ Len(tasks) = Len(targets)
    /\ \A i \in DOMAIN tasks : tasks[i].path = targets[i]

(* No task waits on another: a task that has not returned can take its     *)
(* next step.                                                               *)
NoTaskWaits ==
    \A i \in DOMAIN tasks :
        (pc = "tasks" /\ tasks[i].pc # "done") => ENABLED TaskStep(i)

InRun == pc \in {"stage_open", "select", "tasks", "stage_close"}

Returned == pc \in {"done", "failed", "panicked"}

(* C28: when a run has returned, every path of the selection has gone      *)
(* through the pipeline exactly once and has exactly one outcome:           *)
(* transformed, skipped or failed.                                          *)
C28_EveryPathThroughPipeline ==
    Gathered =>
        \A k \in DOMAIN targets :
            LET mine == {i \in DOMAIN tasks : tasks[i].path = targets[k]}
            IN  /\ Cardinality(mine) = 1
                /\ \A i \in mine : tasks[i].pc = "done" /\ tasks[i].res \in Outcomes

(* What holds of every batch: it returns; when it has gathered its tasks   *)
(* there is one task per entry of the selection, a path listed twice       *)
(* having two, and each task has returned, with one outcome of the         *)
(* pipeline or, in a decryption run, without a call of the pipeline when   *)
(* the path was no longer a file; and no task waits on another.            *)
OneOutcomePerEntry ==
    /\ [](Gathered =>
            /\ OneTaskEach
            /\ \A i \in DOMAIN tasks :
                  /\ tasks[i].pc = "done"
                  /\ \/ tasks[i].res \in Outcomes
                     \/ /\ tasks[i].res = "filtered"
                        /\ mode = "dec"
                        /\ ~fs[tasks[i].path].exists)
    /\ []NoTaskWaits
    /\ (InRun ~> Returned)

(* C29: with an empty crypt list, encrypt_repo returns the error "No      *)
(* pattern to encrypt" without staging, without a selection and without a  *)
(* change to any file; decrypt_repo without an explicit path succeeds and  *)
(* changes no file.                                                         *)
C29_EmptyCryptList ==
    (conf.crypt_list = <<>> /\ ~KeyRefused /\ runs > 0) =>
        /\ mode = "enc" =>
              /\ pc = "failed" /\ verdict = "no_pattern"
              /\ stages = 0 /\ envFailed = ""
              /\ targets = <<>> /\ tasks = <<>>
              /\ fs = fs0
        /\ (mode = "dec" /\ explicit = <<>>) =>
              /\ pc \in {"select", "tasks", "done"}
              /\ pc = "done" => verdict = "ok"
              /\ stages = 0 /\ envFailed = ""
              /\ targets = <<>> /\ tasks = <<>>
              /\ fs = fs0

(* Both have run on a repository with an empty crypt list: encrypt_repo    *)
(* has returned its error and decrypt_repo, after it, has succeeded.       *)
C29_Witness ==
    /\ conf.crypt_list = <<>> /\ ~KeyRefused
    /\ prev.mode = "enc"
    /\ mode = "dec" /\ explicit = <<>>
    /\ pc = "done" /\ verdict = "ok"

(* C30: a run that finds the master secret missing or empty aborts before  *)
(* it stages, selects or touches any file; a run that goes on uses the     *)
(* secret it found at its start; and no batch ever encrypts a file under   *)
(* an empty master secret.                                                  *)
C30_NonEmptyMasterSecret ==
    /\ (runs > 0 /\ (gitKey = <<>> \/ gitKey = << <<>> >>)) =>
          /\ pc = "panicked"
          /\ stages = 0 /\ targets = <<>> /\ tasks = <<>>
          /\ index = add_all(fs0)
          /\ fs = fs0
          /\ used = {}
    /\ pc \in {"stage_open", "select", "tasks", "stage_close"} =>
          gitKey # <<>> /\ gitKey[1] # <<>>
    /\ \A u \in used : u.key # derive_key(<<>>, u.salt)

(* encrypt_repo was started on a repository whose key is the empty string  *)
(* and has aborted.                                                         *)
C30_Witness ==
    /\ gitKey = << <<>> >>
    /\ runs = 1 /\ mode = "enc"
    /\ pc = "panicked"

====
